---- MODULE Spec2Model ----
(***************************************************************************)
(* Model of the brain execution log: the writers of record files           *)
(* (tools/brain_execute_wrapper.py, tools/log_recent_executions.py), the   *)
(* log directory they share, and the query handlers of the three variants  *)
(* of the HTTP API (api/execution_log_api*.py).                            *)
(*                                                                         *)
(* Strings that the code builds or matches (ids, file names, glob          *)
(* patterns) are sequences of string tokens, so that concatenation and     *)
(* prefix matching are computed.  A file is a sequence of lines; a line is *)
(* [k |-> kind, v |-> payload].                                            *)
(***************************************************************************)
EXTENDS Integers, Sequences, FiniteSets, TLC

VARIABLES
    now,      \* the wall clock, <<second, microsecond>>
    files,    \* the log directory: file name -> [lines, mtime]
    pc,       \* per worker: its position in wrap_execute / log_execution
    req,      \* per worker: the arguments of its call
    entry,    \* per worker: its log_entry dict
    wpos,     \* per worker: lines of the current dump already flushed
    proc,     \* per worker: what its subprocess does
    resp      \* the last response a query handler wrote

vars == <<now, files, pc, req, entry, wpos, proc, resp>>

----------------------------------------------------------------------------
(* Bounds of the model *)

MaxExecs == 2
MaxSec == 1
MaxUsec == 1

Execs == 1..MaxExecs
Times == (0..MaxSec) \X (0..MaxUsec)

(* Program constants *)
TIMEOUT_S == 30
CODE_PREFIX == 50

None == "<None>"

Min(a, b) == IF a < b THEN a ELSE b
Max(a, b) == IF a < b THEN b ELSE a

TimeLT(a, b) == a[1] < b[1] \/ (a[1] = b[1] /\ a[2] < b[2])
TimeLE(a, b) == a = b \/ TimeLT(a, b)

----------------------------------------------------------------------------
(* Text *)

Digits == <<"0", "1", "2", "3", "4", "5", "6", "7", "8", "9">>
Dig(n) == Digits[n + 1]

RECURSIVE Join(_)
Join(s) == IF s = <<>> THEN "" ELSE Head(s) \o Join(Tail(s))

Take(s, n) == SubSeq(s, 1, Min(n, Len(s)))

\* timestamp.isoformat(): second and microsecond
IsoFormat(t) == "T" \o Dig(t[1]) \o "." \o Dig(t[2])
\* timestamp.strftime('%Y-%m-%d-%H%M%S'): the microsecond is dropped
StrfTime(t) == "T" \o Dig(t[1])
\* hashlib.md5(x).hexdigest()[:8], taken to be collision free on the texts of the model
Md5Hex8(text) == "md5(" \o text \o ")"

(* The command texts the callers submit, as sequences of tokens. *)
Codes == { <<"print(", "'hi'", ")">>, <<"sleep ", "5">> }

Contains(code, tok) == \E i \in 1..Len(code) : code[i] = tok

\* the auto-detection of wrap_execute and log_execution
DetectLanguage(code, language) ==
    IF language = "auto"
    THEN IF Contains(code, "import ") \/ Contains(code, "def ") \/ Contains(code, "print(")
         THEN "python" ELSE "shell"
    ELSE language

----------------------------------------------------------------------------
(* The writer side: tools/brain_execute_wrapper.py *)

\* create_log_entry(code, language, description) at clock value t
ExecId(code, t) ==
    <<"exec-", StrfTime(t), "-",
      Md5Hex8(IsoFormat(t) \o "-" \o Join(Take(code, CODE_PREFIX)))>>

create_log_entry(code, language, description, t) ==
    [ id             |-> ExecId(code, t),
      timestamp      |-> IsoFormat(t),
      type           |-> language,
      description    |-> IF description \in {None, ""}
                         THEN "Execute " \o language \o " code"
                         ELSE description,
      code           |-> code,
      status         |-> "running",
      output         |-> "",
      error          |-> "",
      execution_time |-> 0 ]

\* the key order of the dict literal, which json.dump keeps
KeyOrder == << "id", "timestamp", "type", "description", "code",
               "status", "output", "error", "execution_time" >>

\* json.dump(log_entry, f, indent=2): one line per brace and per member
DumpLines(e) ==
    <<[k |-> "open", v |-> <<>>]>>
    \o [i \in 1..Len(KeyOrder) |->
          [k |-> "member",
           v |-> <<KeyOrder[i], e[KeyOrder[i]], i < Len(KeyOrder)>>]]
    \o <<[k |-> "close", v |-> <<>>]>>

\* os.path.join(LOG_DIR, f"{exec_id}.json")
LogFileOf(exec_id) == exec_id \o <<".json">>

\* bytes never written between the end of a file and a later write offset
NulLine == [k |-> "nul", v |-> <<>>]

\* a write of lines from+1..to of dump at that offset of a file holding old
Overlay(old, dump, from, to) ==
    [i \in 1..Max(Len(old), to) |->
        IF from < i /\ i <= to THEN dump[i]
        ELSE IF i <= Len(old) THEN old[i] ELSE NulLine]

\* json.load(f) on a whole file: an object written by json.dump, or one
\* line holding a whole object; anything else raises JSONDecodeError
JsonLoad(lines) ==
    LET n == Len(lines)
        solid == { i \in 1..n : lines[i].k # "blank" }
    IN IF /\ n >= 2
          /\ lines[1].k = "open"
          /\ lines[n].k = "close"
          /\ \A i \in 2..(n - 1) : lines[i].k = "member" /\ lines[i].v[3] = (i < n - 1)
       THEN [ok |-> TRUE,
             obj |-> [key \in { lines[i].v[1] : i \in 2..(n - 1) } |->
                        lines[CHOOSE i \in 2..(n - 1) :
                                /\ lines[i].v[1] = key
                                /\ \A j \in (i + 1)..(n - 1) : lines[j].v[1] # key].v[2]]]
       ELSE IF Cardinality(solid) = 1 /\ \A i \in solid : lines[i].k = "json"
       THEN [ok |-> TRUE, obj |-> lines[CHOOSE i \in solid : TRUE].v]
       ELSE [ok |-> FALSE, obj |-> <<>>]

(* What the subprocess of an execution does, chosen by the environment:    *)
(* it cannot be started, or it runs for durMs and has then written stdout  *)
(* and stderr; of a subprocess that is killed at the timeout, stdout and   *)
(* stderr are what it had written by then.                                 *)
Behaviours ==
    { [fails |-> TRUE,  durMs |-> 1,     stdout |-> "",     stderr |-> "",  msg |-> "No such file"],
      [fails |-> FALSE, durMs |-> 50,    stdout |-> "hi\n", stderr |-> "",  msg |-> ""],
      [fails |-> FALSE, durMs |-> 5000,  stdout |-> "hi\n", stderr |-> "w", msg |-> ""],
      [fails |-> FALSE, durMs |-> 40000, stdout |-> "hi\n", stderr |-> "",  msg |-> ""] }

\* execute_code with the failure of subprocess.run taken for a completed run
execute_code_swallowed(code, language, b) ==
    IF b.durMs >= TIMEOUT_S * 1000 /\ ~b.fails
    THEN [output |-> "", error |-> "Execution timed out after 30 seconds",
          status |-> "timeout", ms |-> TIMEOUT_S * 1000]
    ELSE [output |-> b.stdout, error |-> b.stderr, status |-> "completed",
          ms |-> b.durMs]

\* execute_code(code, language) for a subprocess that behaves as b: the
\* output, error, status and execution time (here in ms) it returns
execute_code(code, language, b) ==
    IF b.fails
    THEN [output |-> "", error |-> b.msg, status |-> "error", ms |-> b.durMs]
    ELSE IF b.durMs >= TIMEOUT_S * 1000
    THEN [output |-> "", error |-> "Execution timed out after 30 seconds",
          status |-> "timeout", ms |-> TIMEOUT_S * 1000]
    ELSE [output |-> b.stdout, error |-> b.stderr, status |-> "completed",
          ms |-> b.durMs]

\* the position of the status member among the lines of a dump
StatusLine == 1 + CHOOSE i \in 1..Len(KeyOrder) : KeyOrder[i] = "status"

\* Where the buffer of f may be flushed before the file is closed: after the
\* opening brace, or between the status member and the output member.
FlushPoints == {1, StatusLine}

----------------------------------------------------------------------------
(* The writer side: tools/log_recent_executions.py *)

LogExecId(code, t) == <<"exec-", StrfTime(t), "-", Md5Hex8(Join(code))>>

\* log_execution lines 18-38
log_entry_of(description, code, output, language, error, exec_time_ms, t) ==
    [ id             |-> LogExecId(code, t),
      timestamp      |-> IsoFormat(t),
      type           |-> DetectLanguage(code, language),
      description    |-> description,
      code           |-> code,
      status         |-> IF error = "" THEN "completed" ELSE "error",
      output         |-> output,
      error          |-> error,
      execution_time |-> exec_time_ms ]

----------------------------------------------------------------------------
(* The workers *)

NoReq == [op |-> "none"]
NoEntry == [id |-> <<>>]
NoProc ==
    [fails |-> FALSE, durMs |-> 0, stdout |-> "", stderr |-> "", msg |-> "no subprocess",
     interp |-> "none"]

\* an execute_code that runs the kinds it knows and no other
InterpreterOfKnown(language) ==
    CASE language = "python" -> "python3"
      [] language = "shell" -> "shell"
      [] OTHER -> "none"

\* execute_code lines 56-70: what subprocess.run is given to run the code,
\* python3 -c for the language python and the shell for any other
Interpreter(language) == IF language = "python" THEN "python3" ELSE "shell"

OpenPcs == {"save1", "save2", "saveL"}
WritePcs == {"write1", "write2", "writeL"}
WritingPc(p) ==
    CASE p = "save1" -> "write1" [] p = "save2" -> "write2" [] p = "saveL" -> "writeL"
ClosedPc(p) ==
    CASE p = "write1" -> "spawn" [] p = "write2" -> "format" [] p = "writeL" -> "returned"

\* wrap_execute lines 82-92: the language is resolved and the entry created;
\* timeoutMs is the deadline the caller wants, for which wrap_execute has no parameter
wrap_execute(e, code, language, description, timeoutMs) ==
    /\ pc[e] = "idle"
    /\ LET lang == DetectLanguage(code, language) IN
         /\ req' = [req EXCEPT ![e] = [op |-> "wrap_execute", code |-> code,
                                        asked |-> language, language |-> lang, description |-> description,
                                        timeoutMs |-> timeoutMs]]
         /\ entry' = [entry EXCEPT ![e] = create_log_entry(code, lang, description, now)]
    /\ pc' = [pc EXCEPT ![e] = "save1"]
    /\ UNCHANGED <<now, files, wpos, proc, resp>>

\* log_execution lines 15-41: the entry is built, with its final status
log_execution(e, description, code, output, language, error, exec_time_ms) ==
    /\ pc[e] = "idle"
    /\ req' = [req EXCEPT ![e] = [op |-> "log_execution", code |-> code,
                                   language |-> language, description |-> description,
                                   timeoutMs |-> 0]]
    /\ entry' = [entry EXCEPT ![e] =
                    log_entry_of(description, code, output, language, error,
                                 exec_time_ms, now)]
    /\ pc' = [pc EXCEPT ![e] = "saveL"]
    /\ UNCHANGED <<now, files, wpos, proc, resp>>

\* save_log line 46 (log_execution line 43): open(log_file, 'w') creates the
\* file or truncates it
SaveOpen(e) ==
    /\ pc[e] \in OpenPcs
    /\ files' = [n \in DOMAIN files \cup {LogFileOf(entry[e].id)} |->
                    IF n = LogFileOf(entry[e].id)
                    THEN [lines |-> <<>>, mtime |-> now] ELSE files[n]]
    /\ wpos' = [wpos EXCEPT ![e] = 0]
    /\ pc' = [pc EXCEPT ![e] = WritingPc(pc[e])]
    /\ UNCHANGED <<now, req, entry, proc, resp>>

\* a write through f reaches the directory entry while the file is still
\* linked; after an unlink it goes to a file that no name leads to
WriteThrough(name, dump, from, to) ==
    IF name \in DOMAIN files
    THEN [files EXCEPT ![name] =
             [lines |-> Overlay(files[name].lines, dump, from, to), mtime |-> now]]
    ELSE files

\* save_log line 47: json.dump fills the buffer of f, which may be flushed part way
SaveFlush(e) ==
    /\ pc[e] \in WritePcs
    /\ LET name == LogFileOf(entry[e].id)
           dump == DumpLines(entry[e])
       IN \E k \in FlushPoints :
            /\ wpos[e] < k
            /\ files' = WriteThrough(name, dump, wpos[e], k)
            /\ wpos' = [wpos EXCEPT ![e] = k]
    /\ UNCHANGED <<now, pc, req, entry, proc, resp>>

\* save_log lines 46-49: leaving the with block flushes the rest and closes f
SaveClose(e) ==
    /\ pc[e] \in WritePcs
    /\ LET name == LogFileOf(entry[e].id)
           dump == DumpLines(entry[e])
       IN files' = WriteThrough(name, dump, wpos[e], Len(dump))
    /\ wpos' = [wpos EXCEPT ![e] = 0]
    /\ pc' = [pc EXCEPT ![e] = ClosedPc(pc[e])]
    /\ UNCHANGED <<now, req, entry, proc, resp>>

\* execute_code lines 53-70: subprocess.run starts the subprocess
Spawn(e) ==
    /\ pc[e] = "spawn"
    /\ \E b \in Behaviours :
         proc' = [proc EXCEPT ![e] = b @@ [interp |-> Interpreter(req[e].language)]]
    /\ pc' = [pc EXCEPT ![e] = "running"]
    /\ UNCHANGED <<now, files, req, entry, wpos, resp>>

\* an update that stamps the entry with the time of its end
FinishRestamped(e) ==
    /\ pc[e] = "running"
    /\ LET r == execute_code(req[e].code, req[e].language, proc[e]) IN
         entry' = [entry EXCEPT ![e] =
                     [entry[e] EXCEPT !.output = r.output, !.error = r.error,
                                      !.status = r.status, !.execution_time = r.ms,
                                      !.timestamp = IsoFormat(now)]]
    /\ pc' = [pc EXCEPT ![e] = "save2"]
    /\ UNCHANGED <<now, files, req, wpos, proc, resp>>

\* execute_code returns and wrap_execute lines 98-102 update the entry
Finish(e) ==
    /\ pc[e] = "running"
    /\ LET r == execute_code(req[e].code, req[e].language, proc[e]) IN
         entry' = [entry EXCEPT ![e] =
                     [entry[e] EXCEPT !.output = r.output, !.error = r.error,
                                      !.status = r.status, !.execution_time = r.ms]]
    /\ pc' = [pc EXCEPT ![e] = "save2"]
    /\ UNCHANGED <<now, files, req, wpos, proc, resp>>

\* wrap_execute lines 107-121: the result text is built and returned
Return(e) ==
    /\ pc[e] = "format"
    /\ pc' = [pc EXCEPT ![e] = "returned"]
    /\ UNCHANGED <<now, files, req, entry, wpos, proc, resp>>

\* the wall clock advances
Tick ==
    /\ \E t \in Times : TimeLT(now, t) /\ now' = t
    /\ UNCHANGED <<files, pc, req, entry, wpos, proc, resp>>

----------------------------------------------------------------------------
(* The monitor: tools/execution_monitor.py *)

\* LOG_DIR.glob("*.json")
GlobJson(store) == { n \in DOMAIN store : Len(n) >= 1 /\ n[Len(n)] = ".json" }

\* what a pass of clean_old_logs leaves of a directory: every file matching
\* *.json on which json.load raises JSONDecodeError is unlinked
Cleaned(store) ==
    [n \in { m \in DOMAIN store : m \in GlobJson(store) => JsonLoad(store[m].lines).ok } |->
        store[n]]

clean_old_logs ==
    /\ files' = Cleaned(files)
    /\ UNCHANGED <<now, pc, req, entry, wpos, proc, resp>>

----------------------------------------------------------------------------
(* The query side: api/execution_log_api.py (base), _fixed.py, _enhanced.py *)

LIST_LIMIT == 20
LIST_LIMIT_ENHANCED == 50

\* glob.glob(os.path.join(LOG_DIR, "exec_*.json"))
GlobExec(store) ==
    { n \in DOMAIN store : Len(n) >= 2 /\ n[1] = "exec_" /\ n[Len(n)] = ".json" }

\* os.path.join(LOG_DIR, f"exec_{execution_id}.json")
ReaderFileOf(execution_id) == <<"exec_">> \o execution_id \o <<".json">>

\* json.loads(line): only a line holding one whole JSON value parses.  The
\* value is a dict, or the number 42, which is written as the record below.
NUMBER == "<number>"
IsDict(v) == NUMBER \notin DOMAIN v

ParseLine(line) ==
    IF line.k = "json" THEN [ok |-> TRUE, val |-> line.v] ELSE [ok |-> FALSE, val |-> <<>>]

\* line.strip() is empty
Blank(line) == line.k = "blank"

\* the JSON values of a file, in file order (for line in f: if line.strip(): try json.loads)
RECURSIVE ParsedEntries(_)
ParsedEntries(lines) ==
    IF lines = <<>> THEN <<>>
    ELSE LET l == Head(lines)
             p == ParseLine(l)
         IN (IF ~Blank(l) /\ p.ok THEN <<p.val>> ELSE <<>>) \o ParsedEntries(Tail(lines))

Has(ev, key) == key \in DOMAIN ev

\* one turn of the loop of get_execution_summary / get_execution_final_status
FoldEntry(acc, ev) ==
    [ id        |-> IF Has(ev, "execution_id") THEN ev["execution_id"] ELSE acc.id,
      language  |-> IF Has(ev, "language") THEN ev["language"] ELSE acc.language,
      status    |-> IF Has(ev, "status") THEN ev["status"] ELSE acc.status,
      timestamp |-> IF Has(ev, "timestamp") THEN ev["timestamp"] ELSE acc.timestamp ]

RECURSIVE FoldEntries(_, _)
FoldEntries(acc, evs) ==
    IF evs = <<>> THEN acc ELSE FoldEntries(FoldEntry(acc, Head(evs)), Tail(evs))

\* get_execution_summary (enhanced) and get_execution_final_status (fixed):
\* the id, timestamp, language and status of the summary, and the file name
get_execution_summary(store, name) ==
    LET r == FoldEntries([id |-> None, language |-> "unknown", status |-> "running",
                          timestamp |-> None],
                         ParsedEntries(store[name].lines))
    IN [id |-> r.id, timestamp |-> r.timestamp, language |-> r.language,
        status |-> r.status, file |-> name]

GetOr(ev, key, default) == IF Has(ev, key) THEN ev[key] ELSE default

\* base handle_list_executions lines 78-92: the first line alone is read
FirstLineSummary(store, name) ==
    LET lines == store[name].lines IN
    IF lines = <<>> \/ ~ParseLine(Head(lines)).ok \/ ~IsDict(ParseLine(Head(lines)).val)
    THEN <<>>
    ELSE LET data == ParseLine(Head(lines)).val IN
         << [id |-> GetOr(data, "execution_id", None),
             timestamp |-> GetOr(data, "timestamp", None),
             language |-> GetOr(data, "language", "unknown"),
             status |-> GetOr(data, "status", "unknown"),
             file |-> name] >>

Perms(S) ==
    { p \in [1..Cardinality(S) -> S] : \A i, j \in 1..Cardinality(S) : p[i] = p[j] => i = j }

\* log_files.sort(key=os.path.getmtime, reverse=True): files of equal mtime
\* keep the order glob gave them, which is any order
RECURSIVE ByMtimeDesc(_, _)
ByMtimeDesc(store, names) ==
    IF names = {} THEN {<<>>}
    ELSE UNION { { <<n>> \o rest : rest \in ByMtimeDesc(store, names \ {n}) } :
                 n \in { m \in names :
                           \A k \in names : TimeLE(store[k].mtime, store[m].mtime) } }

\* the order of Python strings on the tokens that file names are made of
TokenOrder == <<"-", ".json", "T0", "T1", "T2", "a", "b", "c", "exec-", "exec_">>
TokRank(t) == CHOOSE i \in 1..Len(TokenOrder) : TokenOrder[i] = t

NameLT(a, b) ==
    \E i \in 1..Len(b) :
        /\ \A j \in 1..(i - 1) : j <= Len(a) /\ a[j] = b[j]
        /\ \/ i = Len(a) + 1
           \/ i <= Len(a) /\ TokRank(a[i]) < TokRank(b[i])

\* sorted(log_files, reverse=True)
ByNameDesc(names) ==
    CHOOSE p \in Perms(names) : \A i, j \in 1..Len(p) : i < j => NameLT(p[j], p[i])

Falsy(v) == v \in {None, ""}

\* a listing that ends at the first file that gives no id
RECURSIVE SummariesUntilCorrupt(_, _)
SummariesUntilCorrupt(store, order) ==
    IF order = <<>> THEN <<>>
    ELSE LET info == get_execution_summary(store, Head(order)) IN
         IF Falsy(info.id) THEN <<>>
         ELSE <<info>> \o SummariesUntilCorrupt(store, Tail(order))

\* for log_file in order: the summary is kept if it has an id
RECURSIVE Summaries(_, _)
Summaries(store, order) ==
    IF order = <<>> THEN <<>>
    ELSE LET info == get_execution_summary(store, Head(order)) IN
         (IF Falsy(info.id) THEN <<>> ELSE <<info>>) \o Summaries(store, Tail(order))

RECURSIVE FirstLineSummaries(_, _)
FirstLineSummaries(store, order) ==
    IF order = <<>> THEN <<>>
    ELSE FirstLineSummary(store, Head(order)) \o FirstLineSummaries(store, Tail(order))

\* a handler that keeps the executions it answered and answers them again
ListEnhancedAccumulating(store, order) ==
    LET kept == IF resp.op = "list-enhanced" /\ "executions" \in DOMAIN resp
                THEN resp.executions ELSE <<>>
        ex == kept \o Summaries(store, Take(order, LIST_LIMIT_ENHANCED))
    IN [op |-> "list", executions |-> ex, count |-> Len(ex), total_available |-> Len(order)]

\* enhanced handle_list_executions, for the order the sort gave
ListEnhanced(store, order) ==
    LET ex == Summaries(store, Take(order, LIST_LIMIT_ENHANCED)) IN
    [op |-> "list", executions |-> ex, count |-> Len(ex), total_available |-> Len(order)]

\* fixed handle_list_executions
ListFixed(store) ==
    LET ex == Summaries(store, Take(ByNameDesc(GlobExec(store)), LIST_LIMIT)) IN
    [op |-> "list", executions |-> ex, count |-> Len(ex), total_available |-> 0]

\* base handle_list_executions
ListBase(store) ==
    LET ex == FirstLineSummaries(store, Take(ByNameDesc(GlobExec(store)), LIST_LIMIT)) IN
    [op |-> "list", executions |-> ex, count |-> Len(ex), total_available |-> 0]

WhiteSpace == {" ", "\n"}

\* str.strip() of a text given as a sequence of tokens
RECURSIVE LStrip(_)
LStrip(t) == IF t # <<>> /\ Head(t) \in WhiteSpace THEN LStrip(Tail(t)) ELSE t
RECURSIVE RStrip(_)
RStrip(t) ==
    IF t # <<>> /\ t[Len(t)] \in WhiteSpace THEN RStrip(SubSeq(t, 1, Len(t) - 1)) ELSE t
Strip(t) == RStrip(LStrip(t))

\* a value that is not a str where a text is expected: null
NullText == <<"<null>">>
IsStr(v) == v # NullText

\* entry['code'].strip() and entry['output'].strip() do not raise
Strippable(ev) == \A key \in {"code", "output"} \cap DOMAIN ev : IsStr(ev[key])

\* enhanced handle_get_execution lines 178-183
StripEntry(ev) ==
    [key \in DOMAIN ev |-> IF key \in {"code", "output"} THEN Strip(ev[key]) ELSE ev[key]]

NotFound == [op |-> "get", error |-> "Execution not found"]

\* enhanced handle_get_execution: 'code' in entry raises on a number and
\* .strip() raises on a value that is not a str; the bare except passes over
\* the line before entries.append
GetEnhanced(store, execution_id) ==
    IF ReaderFileOf(execution_id) \notin DOMAIN store THEN NotFound
    ELSE LET Kept(v) == IsDict(v) /\ Strippable(v)
             evs == SelectSeq(ParsedEntries(store[ReaderFileOf(execution_id)].lines), Kept)
             entries == [i \in 1..Len(evs) |-> StripEntry(evs[i])]
         IN [op |-> "get", execution_id |-> execution_id, entries |-> entries,
             count |-> Len(entries)]

\* base and fixed handle_get_execution
GetBase(store, execution_id) ==
    IF ReaderFileOf(execution_id) \notin DOMAIN store THEN NotFound
    ELSE LET entries == ParsedEntries(store[ReaderFileOf(execution_id)].lines)
         IN [op |-> "get", execution_id |-> execution_id, entries |-> entries,
             count |-> Len(entries)]

\* except Exception as e: self.wfile.write(json.dumps({"error": str(e)}))
ErrorResponse(msg) == [error |-> msg]

(* The entries of many files, newest first: handle_latest_updates and      *)
(* handle_all_entries of the enhanced API, handle_latest_updates of the    *)
(* base API.                                                               *)
FILES_TO_SCAN == 10
TAIL_EVENTS == 10
MAX_LATEST == 50
ALL_MAX_FILES == 20
ALL_MAX_ENTRIES == 100
BASE_LATEST_LINES == 50

\* s[-n:]
LastN(s, n) == SubSeq(s, Max(1, Len(s) - n + 1), Len(s))

\* for log_file in order: all_entries.extend(file_entries[-10:])
RECURSIVE ScanTails(_, _)
ScanTails(store, order) ==
    IF order = <<>> THEN <<>>
    ELSE LastN(ParsedEntries(store[Head(order)].lines), TAIL_EVENTS)
             \o ScanTails(store, Tail(order))

\* for log_file in order: for line in f: all_entries.append(entry)
RECURSIVE ScanAll(_, _)
ScanAll(store, order) ==
    IF order = <<>> THEN <<>>
    ELSE ParsedEntries(store[Head(order)].lines) \o ScanAll(store, Tail(order))

\* key=lambda x: x.get('timestamp', '')
SortKey(ev) == GetOr(ev, "timestamp", "")

\* the order of Python strings on the timestamps that events carry
TimestampOrder == <<"", "t1", "t2", "t3">>
KeyRank(k) == CHOOSE i \in 1..Len(TimestampOrder) : TimestampOrder[i] = k

\* the sort raises AttributeError on a value without .get, and TypeError when
\* it compares a null timestamp with another key
SortRaises(evs) ==
    \/ \E i \in 1..Len(evs) : ~IsDict(evs[i])
    \/ Len(evs) >= 2 /\ \E i \in 1..Len(evs) : SortKey(evs[i]) = None

SortError(evs) ==
    IF \E i \in 1..Len(evs) : ~IsDict(evs[i])
    THEN ErrorResponse("'int' object has no attribute 'get'")
    ELSE ErrorResponse("'<' not supported between instances of 'NoneType' and 'str'")

Reverse(s) == [i \in 1..Len(s) |-> s[Len(s) + 1 - i]]

\* the events of each key, from the greatest key down to rank r; the events
\* of one key in the order they have in evs, or turned round
RECURSIVE KeysDesc(_, _, _)
KeysDesc(evs, r, turned) ==
    IF r > Len(TimestampOrder) THEN <<>>
    ELSE LET HasKey(e) == KeyRank(SortKey(e)) = r
             same == SelectSeq(evs, HasKey)
         IN KeysDesc(evs, r + 1, turned) \o (IF turned THEN Reverse(same) ELSE same)

\* sorted(evs, key=...)[::-1]: descending, events of equal keys turned round
SortedThenReversed(evs) ==
    IF Len(evs) <= 1 THEN evs ELSE KeysDesc(evs, 1, TRUE)

\* evs.sort(key=..., reverse=True): descending, and stable: events of equal
\* keys keep the order they had
SortByTimestampDesc(evs) ==
    IF Len(evs) <= 1 THEN evs ELSE KeysDesc(evs, 1, FALSE)

Range(s) == { s[i] : i \in 1..Len(s) }

\* enhanced handle_latest_updates, for the order the sort of the files gave
LatestEnhanced(store, order) ==
    IF order = <<>> THEN [entries |-> <<>>, count |-> 0]
    ELSE LET all_entries == ScanTails(store, Take(order, FILES_TO_SCAN)) IN
         IF SortRaises(all_entries) THEN SortError(all_entries)
         ELSE LET latest_entries == Take(SortByTimestampDesc(all_entries), MAX_LATEST)
              IN [entries |-> latest_entries, count |-> Len(latest_entries)]

\* an endpoint that counts what it returns instead of what it found
AllEnhancedCountsReturned(store, order) ==
    LET all_entries == ScanAll(store, Take(order, ALL_MAX_FILES)) IN
    IF SortRaises(all_entries) THEN SortError(all_entries)
    ELSE LET cut == Take(SortByTimestampDesc(all_entries), ALL_MAX_ENTRIES)
         IN [entries |-> cut, count |-> Len(cut), total_available |-> Len(cut)]

\* enhanced handle_all_entries
AllEnhanced(store, order) ==
    LET all_entries == ScanAll(store, Take(order, ALL_MAX_FILES)) IN
    IF SortRaises(all_entries) THEN SortError(all_entries)
    ELSE LET sorted == SortByTimestampDesc(all_entries)
         IN [entries |-> Take(sorted, ALL_MAX_ENTRIES),
             count |-> Len(Take(sorted, ALL_MAX_ENTRIES)),
             total_available |-> Len(sorted)]

\* os.path.basename(latest_file).replace("exec_", "").replace(".json", "")
IdOfName(name) ==
    LET Kept(t) == t \notin {"exec_", ".json"} IN SelectSeq(name, Kept)

\* base handle_latest_updates: the last lines of the newest file, as they are
LatestBase(store, order) ==
    IF order = <<>> THEN [entries |-> <<>>, count |-> 0]
    ELSE LET entries == ParsedEntries(LastN(store[Head(order)].lines, BASE_LATEST_LINES))
         IN [entries |-> entries, count |-> Len(entries),
             execution_id |-> IdOfName(Head(order))]

(* What goes wrong with a file while a request is served: os.path.getmtime *)
(* raises when the file was removed after glob listed it, open raises when *)
(* it may not be read or was removed after the sort.                       *)
NoFault == [file |-> <<>>, at |-> "none"]

Faults(store, ats) ==
    {NoFault} \cup { [file |-> n, at |-> a] : n \in GlobExec(store), a \in ats }

OpenFails(f, name) == f.at = "open" /\ f.file = name

\* what a reader finds whose open() is inside a try that passes over the
\* exception: no line of the file
Unread(store, f) ==
    [n \in DOMAIN store |->
        IF OpenFails(f, n) THEN [store[n] EXCEPT !.lines = <<>>] ELSE store[n]]

\* a response, with the handler that wrote it and what went wrong meanwhile
Tagged(op, f, body) == [op |-> op, fault |-> f] @@ body

(* The handlers, as steps of the API server: each writes its response. *)
HandleListEnhanced ==
    /\ \E f \in Faults(files, {"getmtime", "open"}),
          order \in ByMtimeDesc(files, GlobExec(files)) :
         resp' = Tagged("list-enhanced", f,
                        IF f.at = "getmtime" THEN ErrorResponse("FileNotFoundError")
                        ELSE ListEnhanced(Unread(files, f), order))
    /\ UNCHANGED <<now, files, pc, req, entry, wpos, proc>>

HandleListFixed ==
    /\ \E f \in Faults(files, {"open"}) :
         resp' = Tagged("list-fixed", f, ListFixed(Unread(files, f)))
    /\ UNCHANGED <<now, files, pc, req, entry, wpos, proc>>

HandleListBase ==
    /\ \E f \in Faults(files, {"open"}) :
         resp' = Tagged("list-base", f, ListBase(Unread(files, f)))
    /\ UNCHANGED <<now, files, pc, req, entry, wpos, proc>>

\* the ids that requests ask for
QueryIds == {<<"a">>, <<"b">>, <<"c">>}

\* the open() of handle_get_execution is under the handler's try alone
GetFaults(store, x) ==
    {NoFault} \cup { [file |-> n, at |-> "open"] : n \in {ReaderFileOf(x)} \cap DOMAIN store }

HandleGetEnhanced ==
    /\ \E x \in QueryIds : \E f \in GetFaults(files, x) :
         resp' = Tagged("get-enhanced", f,
                        IF f.at = "open" THEN ErrorResponse("PermissionError")
                        ELSE GetEnhanced(files, x)) @@ [asked |-> x]
    /\ UNCHANGED <<now, files, pc, req, entry, wpos, proc>>

HandleGetBase ==
    /\ \E x \in QueryIds : \E f \in GetFaults(files, x) :
         resp' = Tagged("get-base", f,
                        IF f.at = "open" THEN ErrorResponse("PermissionError")
                        ELSE GetBase(files, x)) @@ [asked |-> x]
    /\ UNCHANGED <<now, files, pc, req, entry, wpos, proc>>

\* os.path.getmtime or open raises for a file that the request reads
ReadFails(f, order, n) ==
    \/ f.at = "getmtime"
    \/ f.at = "open" /\ f.file \in Range(Take(order, n))

HandleLatestEnhanced ==
    /\ \E f \in Faults(files, {"getmtime", "open"}),
          order \in ByMtimeDesc(files, GlobExec(files)) :
         resp' = Tagged("latest-enhanced", f,
                        IF ReadFails(f, order, FILES_TO_SCAN) THEN ErrorResponse("OSError")
                        ELSE LatestEnhanced(files, order)) @@ [order |-> order]
    /\ UNCHANGED <<now, files, pc, req, entry, wpos, proc>>

HandleAllEnhanced ==
    /\ \E f \in Faults(files, {"getmtime", "open"}),
          order \in ByMtimeDesc(files, GlobExec(files)) :
         resp' = Tagged("all-enhanced", f,
                        IF ReadFails(f, order, ALL_MAX_FILES) THEN ErrorResponse("OSError")
                        ELSE AllEnhanced(files, order)) @@ [order |-> order]
    /\ UNCHANGED <<now, files, pc, req, entry, wpos, proc>>

\* base and fixed do_GET: the path /api/brain/executions/latest starts with
\* /api/brain/executions/ and that branch comes first, so the request is
\* served by handle_get_execution("latest")
HandleLatestBase ==
    /\ \E f \in GetFaults(files, <<"latest">>) :
         resp' = Tagged("latest-base", f,
                        IF f.at = "open" THEN ErrorResponse("PermissionError")
                        ELSE GetBase(files, <<"latest">>)) @@ [asked |-> <<"latest">>]
    /\ UNCHANGED <<now, files, pc, req, entry, wpos, proc>>

----------------------------------------------------------------------------
Init ==
    /\ now = <<0, 0>>
    /\ files = <<>>
    /\ pc = [e \in Execs |-> "idle"]
    /\ req = [e \in Execs |-> NoReq]
    /\ entry = [e \in Execs |-> NoEntry]
    /\ wpos = [e \in Execs |-> 0]
    /\ proc = [e \in Execs |-> NoProc]
    /\ resp = [op |-> "none"]

(* Concurrent workers.  Workers are interchangeable, so they are started   *)
(* in the order of their numbers.  The query handlers keep no state and    *)
(* change no file: what a query answers at any moment of a run is the      *)
(* value of ListEnhanced, GetEnhanced, ... on the files of that state.     *)
Call(e) ==
    /\ \A d \in Execs : d < e => pc[d] # "idle"
    /\ \E code \in Codes : wrap_execute(e, code, "auto", None, 30000)

LogCall(e) ==
    /\ \A d \in Execs : d < e => pc[d] # "idle"
    /\ \E code \in Codes, error \in {"", "boom"} :
         log_execution(e, "manual", code, "out", "auto", error, 100)

Next ==
    \/ Tick
    \/ \E e \in Execs : Call(e)
    \/ \E e \in Execs : LogCall(e)
    \/ \E e \in Execs : SaveOpen(e)
    \/ \E e \in Execs : SaveFlush(e)
    \/ \E e \in Execs : SaveClose(e)
    \/ \E e \in Execs : Spawn(e)
    \/ \E e \in Execs : Finish(e)
    \/ \E e \in Execs : Return(e)

Spec == Init /\ [][Next]_vars

(* One worker, with every argument a caller may pass. *)
Languages == {"auto", "python", "shell", "ruby"}
TimeoutRequests == {30000, 100}
Descriptions == {None, "say hi"}

CallAny ==
    \E code \in Codes, language \in Languages, description \in Descriptions,
       timeoutMs \in TimeoutRequests :
         wrap_execute(1, code, language, description, timeoutMs)

NextRun ==
    \/ Tick
    \/ CallAny
    \/ SaveOpen(1)
    \/ SaveFlush(1)
    \/ SaveClose(1)
    \/ Spawn(1)
    \/ Finish(1)
    \/ Return(1)

SpecRun == Init /\ [][NextRun]_vars

----------------------------------------------------------------------------
(* The query handlers over the directories a server may find: files of     *)
(* newline-delimited events, as the writer the API was built for leaves    *)
(* them, with lines that do not parse among them.                          *)

MaxLines == 3

J(ev) == [k |-> "json", v |-> ev]
GarbageLine == [k |-> "text", v |-> <<>>]
BlankLine == [k |-> "blank", v |-> <<>>]

Started(x) ==
    J([execution_id |-> x, language |-> "python", status |-> "running", timestamp |-> "t2"])
Completed == J([status |-> "completed", timestamp |-> "t1"])

\* the line 42, and an event whose timestamp is null
NumberLine == J(NUMBER :> "42")
NullTimestamp == J([status |-> "running", timestamp |-> None])

EventLines ==
    { Started("a"), Completed,
      J([status |-> "running"]),
      J([execution_id |-> ""]),
      J([language |-> "shell", timestamp |-> "t3"]),
      J([type |-> "output", output |-> <<" ", "hi", "\n">>]),
      GarbageLine, BlankLine, NumberLine }

SeqsUpTo(S, n) == UNION { [1..m -> S] : m \in 0..n }

\* one file, of any lines
OneFileStores ==
    { [n \in {ReaderFileOf(<<"a">>)} |-> [lines |-> ls, mtime |-> <<0, 0>>]] :
        ls \in SeqsUpTo(EventLines, MaxLines) }

\* the modification times of the files: enough for three files in a row
FileTimes == { <<sec, 0>> : sec \in 0..(MaxSec + 1) }

\* up to three files, of any modification times
ManyFileStores ==
    UNION { [{ReaderFileOf(x) : x \in ids} -> (0..2) \X FileTimes] :
              ids \in SUBSET QueryIds }

BodyOf(x, i) ==
    CASE i = 0 -> <<Started(x), Completed>>
      [] i = 1 -> <<J([status |-> "running"])>>
      [] i = 2 -> <<GarbageLine, BlankLine>>

StoreOf(st) ==
    [n \in DOMAIN st |-> [lines |-> BodyOf(n[2], st[n][1]), mtime |-> st[n][2]]]

InitQuery ==
    /\ now = <<0, 0>>
    /\ files \in OneFileStores \cup { StoreOf(st) : st \in ManyFileStores }
    /\ pc = [e \in Execs |-> "idle"]
    /\ req = [e \in Execs |-> NoReq]
    /\ entry = [e \in Execs |-> NoEntry]
    /\ wpos = [e \in Execs |-> 0]
    /\ proc = [e \in Execs |-> NoProc]
    /\ resp = [op |-> "none"]

NextQuery ==
    \/ HandleListEnhanced
    \/ HandleListFixed
    \/ HandleListBase
    \/ HandleGetEnhanced
    \/ HandleGetBase

SpecQuery == InitQuery /\ [][NextQuery]_vars

----------------------------------------------------------------------------
(* One worker, the monitor's cleanup and a listing, in any interleaving. *)

CallAuto == \E code \in Codes : wrap_execute(1, code, "auto", None, 30000)

NextClean ==
    \/ Tick
    \/ CallAuto
    \/ SaveOpen(1)
    \/ SaveFlush(1)
    \/ SaveClose(1)
    \/ Spawn(1)
    \/ Finish(1)
    \/ Return(1)
    \/ clean_old_logs
    \/ HandleListEnhanced

SpecClean == Init /\ [][NextClean]_vars

----------------------------------------------------------------------------
(* The monitor's cleanup over files of events, with listRecent and getById. *)

SweepLines == { Started("a"), Completed, GarbageLine, BlankLine }
SweepNames == { ReaderFileOf(<<"a">>), ReaderFileOf(<<"b">>) }

SweepStores ==
    UNION { [names -> [lines : SeqsUpTo(SweepLines, MaxLines - 1), mtime : {<<0, 0>>, <<1, 0>>}]] :
              names \in SUBSET SweepNames }

InitSweep ==
    /\ now = <<0, 0>>
    /\ files \in SweepStores
    /\ pc = [e \in Execs |-> "idle"]
    /\ req = [e \in Execs |-> NoReq]
    /\ entry = [e \in Execs |-> NoEntry]
    /\ wpos = [e \in Execs |-> 0]
    /\ proc = [e \in Execs |-> NoProc]
    /\ resp = [op |-> "none"]

NextSweep ==
    \/ clean_old_logs
    \/ HandleListEnhanced
    \/ HandleGetEnhanced

SpecSweep == InitSweep /\ [][NextSweep]_vars

----------------------------------------------------------------------------
(* do_GET of the three variants: which handler answers which path.  A path *)
(* is the sequence of its segments, /api/brain/executions/latest being     *)
(* <<"api", "brain", "executions", "latest">> and / being <<>>.            *)

Variants == {"base", "fixed", "enhanced"}
APIPrefix == <<"api", "brain", "executions">>

\* parsed_path.path.startswith('/api/brain/executions/')
StartsWithPrefix(path) == Len(path) > Len(APIPrefix) /\ SubSeq(path, 1, Len(APIPrefix)) = APIPrefix

\* parsed_path.path.split('/')[-1]
LastSegment(path) == path[Len(path)]

\* the if/elif chain of do_GET, in its order
Route(variant, path) ==
    IF path = <<>> THEN [handler |-> "info", arg |-> ""]
    ELSE IF path = APIPrefix THEN [handler |-> "handle_list_executions", arg |-> ""]
    ELSE IF StartsWithPrefix(path) THEN
        IF variant = "enhanced" /\ LastSegment(path) = "latest"
        THEN [handler |-> "handle_latest_updates", arg |-> ""]
        ELSE IF variant = "enhanced" /\ LastSegment(path) = "all"
        THEN [handler |-> "handle_all_entries", arg |-> ""]
        ELSE [handler |-> "handle_get_execution", arg |-> LastSegment(path)]
    ELSE IF variant # "enhanced" /\ path = APIPrefix \o <<"latest">>
    THEN [handler |-> "handle_latest_updates", arg |-> ""]
    ELSE IF path = <<"health">> THEN [handler |-> "health", arg |-> ""]
    ELSE [handler |-> "unknown", arg |-> ""]

\* the execution id a path segment spells
IdOfSegment(seg) == IF seg = "" THEN <<>> ELSE <<seg>>

\* what the routed handler writes, every file being readable
Answer(variant, r, store, order) ==
    CASE r.handler = "handle_list_executions" ->
           IF variant = "enhanced" THEN ListEnhanced(store, order)
           ELSE IF variant = "fixed" THEN ListFixed(store)
           ELSE ListBase(store)
      [] r.handler = "handle_get_execution" ->
           IF variant = "enhanced" THEN GetEnhanced(store, IdOfSegment(r.arg))
           ELSE GetBase(store, IdOfSegment(r.arg))
      [] r.handler = "handle_latest_updates" ->
           IF variant = "enhanced" THEN LatestEnhanced(store, order)
           ELSE LatestBase(store, order)
      [] r.handler = "handle_all_entries" -> AllEnhanced(store, order)
      [] r.handler = "info" -> [service |-> "Brain Execution API"]
      [] r.handler = "health" -> [status |-> "healthy"]
      [] OTHER -> [error |-> "Unknown endpoint"]

Paths ==
    { <<>>, <<"health">>, <<"api">>, APIPrefix,
      APIPrefix \o <<"latest">>, APIPrefix \o <<"all">>, APIPrefix \o <<"">>,
      APIPrefix \o <<"a">>, APIPrefix \o <<"b">>, APIPrefix \o <<"a", "latest">> }

do_GET ==
    /\ \E variant \in Variants, path \in Paths,
          order \in ByMtimeDesc(files, GlobExec(files)) :
         LET r == Route(variant, path)
         IN resp' = [op |-> "do_GET", variant |-> variant, path |-> path,
                     handler |-> r.handler, arg |-> r.arg]
                    @@ Answer(variant, r, files, order)
    /\ UNCHANGED <<now, files, pc, req, entry, wpos, proc>>

RouteStores ==
    UNION { [names -> [lines : SeqsUpTo(SweepLines, MaxLines - 2), mtime : {<<0, 0>>}]] :
              names \in SUBSET SweepNames }

InitRoute ==
    /\ now = <<0, 0>>
    /\ files \in RouteStores
    /\ pc = [e \in Execs |-> "idle"]
    /\ req = [e \in Execs |-> NoReq]
    /\ entry = [e \in Execs |-> NoEntry]
    /\ wpos = [e \in Execs |-> 0]
    /\ proc = [e \in Execs |-> NoProc]
    /\ resp = [op |-> "none"]

NextRoute == do_GET

SpecRoute == InitRoute /\ [][NextRoute]_vars

----------------------------------------------------------------------------
(* getById over one file of events with texts, lines that do not parse,    *)
(* and an event whose output is null.                                      *)

GetLines ==
    { Started("a"),
      J([type |-> "code", code |-> <<"\n", "ls", " ">>]),
      J([type |-> "output", output |-> <<" ", "hi", "\n">>]),
      J([type |-> "output", output |-> NullText]),
      GarbageLine, BlankLine, NumberLine }

InitGet ==
    /\ now = <<0, 0>>
    /\ files \in { [n \in {ReaderFileOf(<<"a">>)} |-> [lines |-> ls, mtime |-> <<0, 0>>]] :
                     ls \in SeqsUpTo(GetLines, MaxLines) }
    /\ pc = [e \in Execs |-> "idle"]
    /\ req = [e \in Execs |-> NoReq]
    /\ entry = [e \in Execs |-> NoEntry]
    /\ wpos = [e \in Execs |-> 0]
    /\ proc = [e \in Execs |-> NoProc]
    /\ resp = [op |-> "none"]

NextGet ==
    \/ HandleGetEnhanced
    \/ HandleGetBase

SpecGet == InitGet /\ [][NextGet]_vars

----------------------------------------------------------------------------
(* The endpoints that gather the entries of many files, over directories   *)
(* of two files of any lines and any modification times.                   *)

EntryLines ==
    { Started("a"), Completed, J([status |-> "running"]), NullTimestamp, NumberLine }

TwoFileStores ==
    { [n \in {ReaderFileOf(<<"a">>), ReaderFileOf(<<"b">>)} |->
         IF n = ReaderFileOf(<<"a">>) THEN [lines |-> la, mtime |-> <<ma, 0>>]
         ELSE [lines |-> lb, mtime |-> <<0, 0>>]] :
        la \in SeqsUpTo(EntryLines, 2), lb \in SeqsUpTo(EntryLines, 2), ma \in 0..MaxSec }

(* Directories of many files of many events, around the limits of the      *)
(* endpoints: file i is the i-th oldest, its j-th line is an event with    *)
(* one of three timestamps or with none.                                   *)
VolumeFiles ==
    {1, FILES_TO_SCAN - 1, FILES_TO_SCAN, FILES_TO_SCAN + 1, ALL_MAX_FILES, ALL_MAX_FILES + 1}
VolumeLines ==
    {1, 4, ALL_MAX_ENTRIES \div ALL_MAX_FILES, 1 + ALL_MAX_ENTRIES \div ALL_MAX_FILES,
     TAIL_EVENTS, TAIL_EVENTS + 1}

VolumeName(i) == ReaderFileOf(<<"f", Dig(i \div 10), Dig(i % 10)>>)

VolumeEvent(i, j) ==
    LET id == Dig(i \div 10) \o Dig(i % 10) IN
    IF (i + j) % 4 = 0 THEN J([execution_id |-> id, line |-> j])
    ELSE J([execution_id |-> id, line |-> j,
            timestamp |-> TimestampOrder[1 + ((i + j) % 4)]])

VolumeStore(nf, nl) ==
    LET I(n) == CHOOSE i \in 1..nf : VolumeName(i) = n IN
    [n \in { VolumeName(i) : i \in 1..nf } |->
        [lines |-> [j \in 1..nl |-> VolumeEvent(I(n), j)], mtime |-> <<I(n), 0>>]]

VolumeStores == { VolumeStore(nf, nl) : nf \in VolumeFiles, nl \in VolumeLines }

InitEntries ==
    /\ now = <<0, 0>>
    /\ files \in {<<>>} \cup TwoFileStores \cup VolumeStores
    /\ pc = [e \in Execs |-> "idle"]
    /\ req = [e \in Execs |-> NoReq]
    /\ entry = [e \in Execs |-> NoEntry]
    /\ wpos = [e \in Execs |-> 0]
    /\ proc = [e \in Execs |-> NoProc]
    /\ resp = [op |-> "none"]

NextEntries ==
    \/ HandleLatestEnhanced
    \/ HandleAllEnhanced
    \/ HandleLatestBase

SpecEntries == InitEntries /\ [][NextEntries]_vars

----------------------------------------------------------------------------
(* The properties *)

Terminal == {"completed", "error", "timeout"}

\* the status a whole-file read of a record file finds, None when it finds none
StoredStatus(name) ==
    IF name \in DOMAIN files /\ JsonLoad(files[name].lines).ok
       /\ "status" \in DOMAIN JsonLoad(files[name].lines).obj
    THEN JsonLoad(files[name].lines).obj["status"]
    ELSE None

\* the worker has written its terminal snapshot
WroteTerminal(e) == pc[e] \in {"format", "returned"} /\ entry[e].status \in Terminal

\* C1: once a worker has stored a terminal status for an id, the status that
\* the id's file stores is that status: no write stores another one, and
\* never running again.
C1_StatusMonotonic ==
    \A e \in Execs :
        WroteTerminal(e) =>
            StoredStatus(LogFileOf(entry[e].id)) \in {None, entry[e].status}

\* C2: a file of the directory is at every moment a whole snapshot: a read
\* never finds it empty or written in part.
C2_NeverHalfWritten ==
    \A n \in DOMAIN files : JsonLoad(files[n].lines).ok

\* C3: for an execution that was run to completion with id X, getById(X)
\* reads the file the runner wrote and its last event has status completed
\* and the captured output.
C3_GetByIdReturnsWritten ==
    \A e \in Execs :
        (pc[e] = "returned" /\ req[e].op = "wrap_execute" /\ entry[e].status = "completed") =>
            LET r == GetEnhanced(files, entry[e].id) IN
            /\ ReaderFileOf(entry[e].id) = LogFileOf(entry[e].id)
            /\ r # NotFound
            /\ r.count >= 1
            /\ r.entries[r.count]["status"] = "completed"
            /\ r.entries[r.count]["output"] = entry[e].output

\* the summaries of listRecent that carry the id, for every order the sort may give
Listed(id) ==
    { x \in UNION { { ListEnhanced(files, o).executions[i] :
                         i \in 1..ListEnhanced(files, o).count } :
                    o \in ByMtimeDesc(files, GlobExec(files)) } : x.id = id }

\* C4: from the start of the subprocess to the terminal write, the running
\* record of the execution is stored whole and listRecent and getById report it.
C4_RunningRecordDiscoverable ==
    \A e \in Execs :
        pc[e] \in {"running", "save2"} =>
            /\ StoredStatus(LogFileOf(entry[e].id)) = "running"
            /\ GetEnhanced(files, entry[e].id) # NotFound
            /\ \E x \in Listed(entry[e].id) : x.status = "running"

\* the members a reader finds in the lines of a file, as <<key, value>>
VisibleMembers(lines) ==
    { <<lines[i].v[1], lines[i].v[2]>> : i \in { j \in 1..Len(lines) : lines[j].k = "member" } }

\* C5: the file of an execution never shows a terminal status without the
\* output and the error text: the status and its output become visible in
\* one step.
C5_StatusFlipWithOutput ==
    \A e \in Execs :
        (req[e].op = "wrap_execute" /\ LogFileOf(entry[e].id) \in DOMAIN files) =>
            LET seen == VisibleMembers(files[LogFileOf(entry[e].id)].lines) IN
            (\E m \in seen : m[1] = "status" /\ m[2] \in Terminal) =>
                /\ \E m \in seen : m[1] = "output"
                /\ \E m \in seen : m[1] = "error"

\* C6: when wrap_execute has returned, the record stored for its execution
\* has a terminal status: it is not stored as running, and it is not missing.
C6_TerminalRecordStored ==
    \A e \in Execs :
        (pc[e] = "returned" /\ req[e].op = "wrap_execute") =>
            StoredStatus(LogFileOf(entry[e].id)) \in Terminal

AfterExecute == {"save2", "write2", "format", "returned"}
TimedOut(e) == ~proc[e].fails /\ proc[e].durMs >= TIMEOUT_S * 1000

\* C7: a command that does not finish before the deadline the caller asked
\* for ends with status timeout.
C7_CallerDeadlineEnforced ==
    \A e \in Execs :
        (/\ pc[e] \in AfterExecute
         /\ req[e].op = "wrap_execute"
         /\ ~proc[e].fails
         /\ proc[e].durMs >= req[e].timeoutMs) =>
            entry[e].status = "timeout"

\* C8: a subprocess that cannot be started, or that runs into the timeout,
\* is returned by execute_code as data: status error with the description of
\* the failure as error text, or status timeout; wrap_execute stores that
\* record and then returns.
C8_FailureReturnedAsData ==
    \A e \in Execs :
        (pc[e] \in AfterExecute /\ req[e].op = "wrap_execute") =>
            /\ proc[e].fails =>
                 entry[e].status = "error" /\ entry[e].error = proc[e].msg
            /\ TimedOut(e) => entry[e].status = "timeout"
            /\ (pc[e] \in {"format", "returned"} /\ (proc[e].fails \/ TimedOut(e))) =>
                 /\ JsonLoad(files[LogFileOf(entry[e].id)].lines).ok
                 /\ JsonLoad(files[LogFileOf(entry[e].id)].lines).obj = entry[e]
            /\ pc[e] = "format" => ENABLED Return(e)

C8_Witness ==
    \E e \in Execs :
        /\ pc[e] = "returned"
        /\ proc[e].fails
        /\ StoredStatus(LogFileOf(entry[e].id)) = "error"

IsList ==
    resp.op \in {"list-enhanced", "list-fixed", "list-base"} /\ "executions" \in DOMAIN resp
LimitOf(op) == IF op = "list-enhanced" THEN LIST_LIMIT_ENHANCED ELSE LIST_LIMIT

\* C9: a listing holds at most as many items as its limit, its items are in
\* descending order of the modification times of their files, each is the
\* fold of its file, and none has an empty or missing id.
C9_ListRecentOrdered ==
    IsList =>
        LET ex == resp.executions IN
        /\ resp.count = Len(ex)
        /\ Len(ex) <= LimitOf(resp.op)
        /\ \A i, j \in 1..Len(ex) :
             i < j => TimeLE(files[ex[j].file].mtime, files[ex[i].file].mtime)
        /\ \A i \in 1..Len(ex) : ex[i] = get_execution_summary(files, ex[i].file)
        /\ \A i \in 1..Len(ex) : ~Falsy(ex[i].id)

\* the value of key in the last event that sets it
LastSet(evs, key) ==
    evs[CHOOSE i \in 1..Len(evs) :
          /\ Has(evs[i], key)
          /\ \A j \in (i + 1)..Len(evs) : ~Has(evs[j], key)][key]

SummaryFields ==
    { <<"id", "execution_id">>, <<"language", "language">>,
      <<"status", "status">>, <<"timestamp", "timestamp">> }

\* C10: each of id, kind, status and timestamp of a listed summary is the
\* value of the last event, in file order, that sets the field.
C10_LastWriteWins ==
    IsList =>
        \A i \in 1..Len(resp.executions) :
            LET x == resp.executions[i]
                evs == ParsedEntries(files[x.file].lines)
            IN \A f \in SummaryFields :
                 (\E k \in 1..Len(evs) : Has(evs[k], f[2])) => x[f[1]] = LastSet(evs, f[2])

\* the same, of the listings of the fixed and the enhanced API alone
C9_EnhancedOnly == resp.op = "list-enhanced" => C9_ListRecentOrdered
C10_FoldingVariants == resp.op \in {"list-enhanced", "list-fixed"} => C10_LastWriteWins

----------------------------------------------------------------------------
(* The properties of the query side, continued *)

IsGet == resp.op \in {"get-enhanced", "get-base"} /\ resp.fault = NoFault

\* the store holds no event that parses for the id
NoParseableEvent(x) ==
    \/ ReaderFileOf(x) \notin DOMAIN files
    \/ ParsedEntries(files[ReaderFileOf(x)].lines) = <<>>

\* C11: getById answers NotFound for an id whose file is missing and for an
\* id whose file has no line that parses; it never answers such an id with
\* a result of zero entries.
C11_NotFoundWithoutEvents ==
    (IsGet /\ NoParseableEvent(resp.asked)) =>
        /\ "error" \in DOMAIN resp
        /\ resp.error = NotFound.error
        /\ "entries" \notin DOMAIN resp

\* the part of C11 that the code keeps: no file, NotFound
C11_MissingFileNotFound ==
    (IsGet /\ ReaderFileOf(resp.asked) \notin DOMAIN files) =>
        "error" \in DOMAIN resp /\ resp.error = NotFound.error

\* the request met no storage error: at most a file that was removed after
\* glob had listed it
ContentOnly == resp.op # "none" /\ resp.fault.at \in {"none", "getmtime"}

\* the one error a query may answer: getById of an id that has no file
IsNotFound ==
    /\ resp.op \in {"get-enhanced", "get-base"}
    /\ resp.error = NotFound.error
    /\ ReaderFileOf(resp.asked) \notin DOMAIN files

\* C12: whatever the files hold (nothing, lines that do not parse, JSON
\* values that are not objects, timestamps that are not strings) and when a
\* file is removed after it was listed, list, get, latest and all answer a
\* result, never an error response.
C12_NoErrorOnBadContent ==
    (ContentOnly /\ "error" \in DOMAIN resp) => IsNotFound

\* a file of unparseable content: it has lines and none of them parses
Corrupt(n) == files[n].lines # <<>> /\ ParsedEntries(files[n].lines) = <<>>

\* a file as a writer of events leaves it: every line is an event, the first
\* one carries the id, and no id is empty
Valid(n) ==
    LET lines == files[n].lines IN
    /\ lines # <<>>
    /\ \A i \in 1..Len(lines) :
         /\ ParseLine(lines[i]).ok
         /\ IsDict(ParseLine(lines[i]).val)
         /\ Has(ParseLine(lines[i]).val, "execution_id") =>
              ~Falsy(ParseLine(lines[i]).val["execution_id"])
    /\ Has(ParseLine(lines[1]).val, "execution_id")

\* the directory holds the corrupt file c, and valid files beside it
OneCorruptFile(c) ==
    /\ c \in GlobExec(files)
    /\ Corrupt(c)
    /\ \A n \in GlobExec(files) \ {c} : Valid(n)

ListedFiles == { resp.executions[i].file : i \in 1..Len(resp.executions) }

\* C13: of a directory with one corrupt file and k valid files, a listing
\* holds k items, one of each valid file and with its id, wherever the
\* modification time of the corrupt file puts it.
C13_CorruptFileSkipped ==
    \A c \in GlobExec(files) :
        (IsList /\ resp.fault = NoFault /\ OneCorruptFile(c)) =>
            /\ Len(resp.executions) = Cardinality(GlobExec(files)) - 1
            /\ resp.count = Len(resp.executions)
            /\ ListedFiles = GlobExec(files) \ {c}
            /\ \A i \in 1..Len(resp.executions) :
                 resp.executions[i].id =
                     ParseLine(files[resp.executions[i].file].lines[1]).val["execution_id"]

\* a listing of two valid files with the corrupt file between them in time
C13_Witness ==
    \E c \in GlobExec(files) :
        /\ IsList /\ resp.fault = NoFault /\ OneCorruptFile(c)
        /\ Len(resp.executions) = 2
        /\ TimeLT(files[resp.executions[2].file].mtime, files[c].mtime)
        /\ TimeLT(files[c].mtime, files[resp.executions[1].file].mtime)

----------------------------------------------------------------------------
(* The properties of latest and all *)

\* the place of an event in the order of timestamps; an event without a
\* timestamp has the place of the empty string, the lowest
TsRank(ev) ==
    IF ~IsDict(ev) \/ SortKey(ev) = None THEN 1 ELSE KeyRank(SortKey(ev))

Ranks == 1..Len(TimestampOrder)

OfRank(es, r) == LET AtRank(e) == TsRank(e) = r IN SelectSeq(es, AtRank)

Descending(es) == \A i, j \in 1..Len(es) : i < j => TsRank(es[i]) >= TsRank(es[j])

IsPrefix(a, b) == Len(a) <= Len(b) /\ a = SubSeq(b, 1, Len(a))

Count(e, es) == Cardinality({ i \in 1..Len(es) : es[i] = e })

\* every event of a is in b, as often at least
SubBag(a, b) == \A e \in Range(a) : Count(e, a) <= Count(e, b)

\* es holds the first events of scan sorted by timestamp descending, at
\* most limit of them: it is descending, its events are events of scan, and
\* it leaves out an event only when it holds every event of a later
\* timestamp and has reached the limit
FirstByTimestamp(es, scan, limit) ==
    /\ Len(es) = Min(limit, Len(scan))
    /\ Descending(es)
    /\ \A r \in Ranks : SubBag(OfRank(es, r), OfRank(scan, r))
    /\ \A r \in Ranks :
         Len(OfRank(es, r)) < Len(OfRank(scan, r)) =>
             \A q \in 1..(r - 1) : OfRank(es, q) = <<>>

IsLatest == resp.op \in {"latest-enhanced", "latest-base"} /\ resp.fault = NoFault

\* C14: latest answers with the first 50 events, by timestamp descending
\* with the events without timestamp last, of the last 10 events of each of
\* the 10 most recently modified files.
C14_LatestAcrossAll ==
    IsLatest =>
        /\ "entries" \in DOMAIN resp
        /\ resp.count = Len(resp.entries)
        /\ \E order \in ByMtimeDesc(files, GlobExec(files)) :
             FirstByTimestamp(resp.entries,
                              ScanTails(files, Take(order, FILES_TO_SCAN)), MAX_LATEST)

\* the same of the results of the enhanced API
C14_EnhancedResults ==
    (resp.op = "latest-enhanced" /\ "entries" \in DOMAIN resp) =>
        /\ resp.count = Len(resp.entries)
        /\ FirstByTimestamp(resp.entries,
                            ScanTails(files, Take(resp.order, FILES_TO_SCAN)), MAX_LATEST)

\* the same of handle_latest_updates of the base API, were it called
C14_BaseHandlerAlone ==
    \A order \in ByMtimeDesc(files, GlobExec(files)) :
        FirstByTimestamp(LatestBase(files, order).entries,
                         ScanTails(files, Take(order, FILES_TO_SCAN)), MAX_LATEST)

\* a result of latest or all, and the events it was sorted from
IsEntries == resp.op \in {"latest-enhanced", "all-enhanced"} /\ "entries" \in DOMAIN resp

Scanned ==
    IF resp.op = "latest-enhanced" THEN ScanTails(files, Take(resp.order, FILES_TO_SCAN))
    ELSE ScanAll(files, Take(resp.order, ALL_MAX_FILES))

\* C15: in a result of latest or all, the events of one timestamp, and the
\* events without timestamp, are in the order in which they were scanned.
C15_TiesKeepScanOrder ==
    IsEntries => \A r \in Ranks : IsPrefix(OfRank(resp.entries, r), OfRank(Scanned, r))

\* a result with two different events of one timestamp and two different
\* events without timestamp
C15_Witness ==
    /\ IsEntries
    /\ \E i, j \in 1..Len(resp.entries) :
         /\ i < j /\ resp.entries[i] # resp.entries[j]
         /\ Has(resp.entries[i], "timestamp") /\ Has(resp.entries[j], "timestamp")
         /\ resp.entries[i]["timestamp"] = resp.entries[j]["timestamp"]
    /\ \E i, j \in 1..Len(resp.entries) :
         /\ i < j /\ resp.entries[i] # resp.entries[j]
         /\ ~Has(resp.entries[i], "timestamp") /\ ~Has(resp.entries[j], "timestamp")

\* C16: all answers with the first min(100, total) events by timestamp
\* descending of every event of the 20 most recently modified files, and
\* total_available is total, the number of those events: count is
\* min(100, total_available), and less than it exactly when events were cut.
C16_AllRecentEntries ==
    (resp.op = "all-enhanced" /\ "entries" \in DOMAIN resp) =>
        LET scan == ScanAll(files, Take(resp.order, ALL_MAX_FILES)) IN
        /\ resp.total_available = Len(scan)
        /\ resp.count = Len(resp.entries)
        /\ resp.count = Min(ALL_MAX_ENTRIES, resp.total_available)
        /\ FirstByTimestamp(resp.entries, scan, ALL_MAX_ENTRIES)
        /\ (resp.count < resp.total_available) <=> (Len(resp.entries) < Len(scan))

\* a result of all from which events were cut
C16_Witness ==
    /\ resp.op = "all-enhanced" /\ "entries" \in DOMAIN resp
    /\ resp.count = ALL_MAX_ENTRIES
    /\ resp.count < resp.total_available

----------------------------------------------------------------------------
(* The properties of summaries, continued *)

\* the timestamps of the events of a file
TimestampsOf(name) ==
    LET evs == SelectSeq(ParsedEntries(files[name].lines), IsDict) IN
    { evs[i]["timestamp"] : i \in { k \in 1..Len(evs) : Has(evs[k], "timestamp") } }

Earliest(ts) == CHOOSE t \in ts : \A u \in ts : KeyRank(t) <= KeyRank(u)

\* C17: the creation time of a listed summary is the earliest timestamp of
\* the events of its file, wherever in the file that event is.
C17_CreatedAtEarliest ==
    IsList =>
        \A i \in 1..Len(resp.executions) :
            LET x == resp.executions[i] IN
            TimestampsOf(x.file) # {} => x.timestamp = Earliest(TimestampsOf(x.file))

----------------------------------------------------------------------------
(* The properties of the writers, continued *)

\* C18: two executions, whenever they were created and whatever their
\* command texts, have different ids, and so different record files.
C18_IdsUnique ==
    \A e1, e2 \in Execs :
        (e1 # e2 /\ pc[e1] # "idle" /\ pc[e2] # "idle") =>
            /\ entry[e1].id # entry[e2].id
            /\ LogFileOf(entry[e1].id) # LogFileOf(entry[e2].id)

----------------------------------------------------------------------------
(* The properties of the query side under storage errors *)

\* open() raised for a file that the request reads: a listing reads every
\* file while the directory holds no more files than its limit, latest and
\* all read the newest files
StorageErrorMet ==
    /\ resp.op # "none"
    /\ resp.fault.at = "open"
    /\ resp.op \in {"list-enhanced", "list-fixed", "list-base"} =>
         Cardinality(GlobExec(files)) <= LimitOf(resp.op)
    /\ resp.op = "latest-enhanced" => resp.fault.file \in Range(Take(resp.order, FILES_TO_SCAN))
    /\ resp.op = "all-enhanced" => resp.fault.file \in Range(Take(resp.order, ALL_MAX_FILES))

\* C19: a request that meets a storage error while it reads a record file
\* answers with that error; it does not answer a result that leaves the
\* record out.
C19_StorageErrorReported ==
    StorageErrorMet =>
        /\ "error" \in DOMAIN resp
        /\ resp.error # NotFound.error

\* the same of get, latest and all, whose open() is under the handler's try
C19_ReportedOutsideListings ==
    (StorageErrorMet /\ ~(resp.op \in {"list-enhanced", "list-fixed", "list-base"})) =>
        "error" \in DOMAIN resp /\ resp.error # NotFound.error

\* the file holds a record: its events give an id
IsRecord(n) == ~Falsy(get_execution_summary(files, n).id)

\* no event of the file has a terminal status
NoTerminalEvent(n) ==
    LET evs == SelectSeq(ParsedEntries(files[n].lines), IsDict) IN
    \A i \in 1..Len(evs) : Has(evs[i], "status") => evs[i]["status"] \notin Terminal

\* C20: a record whose file has no event with a terminal status is listed
\* with status running by every listing, whatever was asked before.
C20_RunningStaysRunning ==
    (IsList /\ resp.fault = NoFault /\ Cardinality(GlobExec(files)) <= LimitOf(resp.op)) =>
        \A n \in GlobExec(files) :
            (IsRecord(n) /\ NoTerminalEvent(n)) =>
                /\ \E i \in 1..Len(resp.executions) : resp.executions[i].file = n
                /\ \A i \in 1..Len(resp.executions) :
                     resp.executions[i].file = n => resp.executions[i].status = "running"

\* the same of the listings of the fixed and the enhanced API
C20_FoldingVariants ==
    resp.op \in {"list-enhanced", "list-fixed"} => C20_RunningStaysRunning

----------------------------------------------------------------------------
(* The properties of the runner, continued *)

TimeoutMessage == "Execution timed out after 30 seconds"

\* C21: the terminal record of an execution that ran into the timeout has as
\* output what the subprocess had written to standard output before it was
\* killed, and as error text the timeout message.
C21_TimeoutKeepsOutput ==
    \A e \in Execs :
        (pc[e] \in AfterExecute /\ req[e].op = "wrap_execute" /\ TimedOut(e)) =>
            /\ entry[e].status = "timeout"
            /\ entry[e].error = TimeoutMessage
            /\ entry[e].output = proc[e].stdout

\* the part of C21 that the code keeps: the status and the message
C21_TimeoutMessageStored ==
    \A e \in Execs :
        (pc[e] \in AfterExecute /\ req[e].op = "wrap_execute" /\ TimedOut(e)) =>
            entry[e].status = "timeout" /\ entry[e].error = TimeoutMessage

----------------------------------------------------------------------------
(* The properties of getById, continued *)

\* an event with its code and output text trimmed, and nothing else changed
Trimmed(ev) ==
    [key \in DOMAIN ev |->
        IF key \in {"code", "output"} /\ IsStr(ev[key]) THEN Strip(ev[key]) ELSE ev[key]]

\* the events of the file that the request asked for
EventsAsked == SelectSeq(ParsedEntries(files[ReaderFileOf(resp.asked)].lines), IsDict)

GotFile ==
    /\ resp.op = "get-enhanced"
    /\ resp.fault = NoFault
    /\ ReaderFileOf(resp.asked) \in DOMAIN files

\* C22: getById answers with the events of the file that parse, each once
\* and in file order, with code and output trimmed: a line that does not
\* parse removes nothing else, and no event is left out.
C22_GetReturnsEveryEvent ==
    GotFile =>
        /\ "entries" \in DOMAIN resp
        /\ resp.count = Len(EventsAsked)
        /\ resp.entries = [i \in 1..Len(EventsAsked) |-> Trimmed(EventsAsked[i])]

\* the same for files whose code and output fields are all texts
C22_TextFieldsOnly ==
    (GotFile /\ \A i \in 1..Len(EventsAsked) : Strippable(EventsAsked[i])) =>
        /\ resp.count = Len(EventsAsked)
        /\ resp.entries = [i \in 1..Len(EventsAsked) |-> Trimmed(EventsAsked[i])]

----------------------------------------------------------------------------
(* The properties of the record of one execution *)

\* what the terminal update leaves alone
FrameKeys == {"id", "timestamp", "type", "description", "code"}
Frame(en) == [key \in FrameKeys |-> en[key]]

\* the snapshot that the file of the execution stores
Stored(e) == JsonLoad(files[LogFileOf(entry[e].id)].lines)

\* while the subprocess runs the file stores the entry of the worker, with
\* empty output and error and time 0; after the terminal write it stores
\* the entry of the worker again
SnapshotsStored ==
    \A e \in Execs :
        req[e].op = "wrap_execute" =>
            /\ pc[e] \in {"spawn", "running"} =>
                 /\ Stored(e).ok /\ Stored(e).obj = entry[e]
                 /\ entry[e].status = "running"
                 /\ entry[e].output = "" /\ entry[e].error = ""
                 /\ entry[e].execution_time = 0
            /\ pc[e] \in {"format", "returned"} =>
                 Stored(e).ok /\ Stored(e).obj = entry[e]

\* no step changes id, timestamp, kind, description or code of an entry
FrameKept ==
    \A e \in Execs :
        (pc[e] # "idle" /\ req[e].op = "wrap_execute") => Frame(entry'[e]) = Frame(entry[e])

\* C23: the terminal update changes status, output, error and
\* execution_time alone: id, timestamp, kind, description and code stored
\* after it are those of the running snapshot, which has empty output, empty
\* error and execution_time 0.
C23_TerminalUpdateFrame == []SnapshotsStored /\ [][FrameKept]_vars

\* a completed execution with output, after its terminal write, at a later
\* clock value than its creation
C23_Witness ==
    /\ pc[1] = "returned"
    /\ entry[1].status = "completed"
    /\ entry[1].output # ""
    /\ entry[1].timestamp # IsoFormat(now)

----------------------------------------------------------------------------
(* The properties of the cleanup *)

\* C24: once wrap_execute has returned, the file of its execution exists
\* and stores the terminal snapshot, whatever cleanup passes and queries ran
\* meanwhile.
C24_RecordSurvivesCleanup ==
    \A e \in Execs :
        (pc[e] = "returned" /\ req[e].op = "wrap_execute") =>
            /\ LogFileOf(entry[e].id) \in DOMAIN files
            /\ Stored(e).ok
            /\ Stored(e).obj = entry[e]
            /\ entry[e].status \in Terminal

\* the events the query side parses from a file
EventsOf(lines) == SelectSeq(ParsedEntries(lines), IsDict)

\* C25: a cleanup pass removes no file from which the query side parses at
\* least one event, so every such file answers getById and listRecent after
\* the pass as before.
C25_EventFilesKept ==
    [][\A n \in DOMAIN files :
          EventsOf(files[n].lines) # <<>> =>
              n \in DOMAIN files' /\ files'[n] = files[n]]_vars

\* C25: what a pass does remove: the files json.load rejects, which are the
\* files with no parseable value and the files with more than one line of
\* content.
C25_RemovedAreNotOneValue ==
    [][\A n \in DOMAIN files \ DOMAIN files' :
          LET solid == SelectSeq(files[n].lines, LAMBDA l : ~Blank(l))
          IN Len(solid) # 1 \/ ~ParseLine(solid[1]).ok]_vars

----------------------------------------------------------------------------
(* The properties of the routing *)

\* the endpoint names of a variant that are not execution ids
Reserved(variant) == IF variant = "enhanced" THEN {"latest", "all"} ELSE {"latest"}

Routed(variant) ==
    /\ resp.path = APIPrefix \o <<"latest">> => resp.handler = "handle_latest_updates"
    /\ resp.handler = "handle_get_execution" =>
           LastSegment(resp.path) \notin Reserved(variant)

\* C26: in every variant the path /api/brain/executions/latest is answered
\* by the latest-entries handler, and the get-by-id handler answers only
\* paths whose last segment is not a reserved endpoint name.
C26_LatestRoutedToLatest ==
    resp.op = "do_GET" => Routed(resp.variant)

\* C26: the enhanced variant routes as claimed.
C26_EnhancedRouting ==
    (resp.op = "do_GET" /\ resp.variant = "enhanced") => Routed("enhanced")

----------------------------------------------------------------------------
(* The properties of repeated queries *)

\* the summary get_execution_summary starts from
FoldStart == [id |-> None, language |-> "unknown", status |-> "running", timestamp |-> None]

\* folding the events of a file onto their own summary changes nothing
FoldTwice ==
    \A n \in DOMAIN files :
        LET evs == ParsedEntries(files[n].lines)
        IN FoldEntries(FoldEntries(FoldStart, evs), evs) = FoldEntries(FoldStart, evs)

\* no two files of the directory have one modification time
DistinctTimes(store) ==
    \A m, n \in DOMAIN store : m # n => store[m].mtime # store[n].mtime

ListAnswered == resp.op = "list-enhanced" /\ resp.fault = NoFault

\* a step of a query leaves the files as they are
QueriesReadOnly == resp' # resp => files' = files

\* r is a listing of the files of store: the summaries with an id of its
\* 50 most recently modified files, in that order, and the number of files
ListingOf(r, store) ==
    \E order \in ByMtimeDesc(store, GlobExec(store)) :
        LET ex == Summaries(store, Take(order, LIST_LIMIT_ENHANCED))
        IN r.executions = ex /\ r.count = Len(ex) /\ r.total_available = Len(order)

\* a listing is the listing of the files as they are at the call
ListOfFiles ==
    (resp' # resp /\ ListAnswered') => ListingOf(resp', files)

\* a listing that follows a listing of the same files equals it
SameListing ==
    (/\ ListAnswered /\ ListingOf(resp, files)
     /\ ListAnswered' /\ files' = files /\ DistinctTimes(files)) =>
        resp' = resp

----------------------------------------------------------------------------
(* The properties of the kind of an execution *)

Markers == {"import ", "def ", "print("}

Spawned(e) == pc[e] \in {"running", "save2", "write2", "format", "returned"}

\* C28: the kind stored at creation is the kind asked for, or with auto
\* python for a text holding a marker and shell otherwise; the subprocess
\* is python3 for the kind python and the shell for every other kind,
\* which is the kind stored; and the execution of any kind ends in a
\* terminal status.
C28_KindResolution ==
    \A e \in Execs :
        (pc[e] # "idle" /\ req[e].op = "wrap_execute") =>
            /\ req[e].asked # "auto" => entry[e].type = req[e].asked
            /\ req[e].asked = "auto" =>
                   entry[e].type = IF \E i \in 1..Len(req[e].code) : req[e].code[i] \in Markers
                                   THEN "python" ELSE "shell"
            /\ Spawned(e) =>
                   proc[e].interp = IF entry[e].type = "python" THEN "python3" ELSE "shell"
            /\ pc[e] = "returned" => entry[e].status \in Terminal

\* C28: an execution of a kind that is neither python nor shell has run in
\* the shell and completed
C28_Witness ==
    /\ pc[1] = "returned"
    /\ req[1].asked = "ruby"
    /\ entry[1].type = "ruby"
    /\ proc[1].interp = "shell"
    /\ entry[1].status = "completed"

====
